---- MODULE Spec2Model ----
(***************************************************************************)
(* Model of the upload server of Server/src/main.py: the FastAPI handler   *)
(* create_upload_file, its two executor tasks send_answer and              *)
(* detect_object, and the Sink that receives their POSTs.                  *)
(*                                                                         *)
(* create_upload_file is an `async def` whose body holds no await: once    *)
(* the single uvicorn event loop starts the body for one request it runs   *)
(* it to its return (or to the exception that ends it) before it can start *)
(* the body for any other request.  The executor's worker threads run      *)
(* beside the event loop thread.                                           *)
(***************************************************************************)
EXTENDS Integers, Sequences, FiniteSets, TLC

\* ---------------------------------------------------------------- bounds
\* Number of uploads the clients send in one process run.
NumRequests == 2

Reqs == 1..NumRequests

\* ------------------------------------------------------- program constants
\* ThreadPoolExecutor(max_workers=2), a fresh executor for every request.
max_workers == 2

\* The variable uuid before line 82 binds it.
NoId == 0

\* The values uuid4() can return (a stand-in for the 2^122 random values).
Ids == 1..NumRequests

\* The values the generator answer_question yields during one captioning:
\* the running caption, which may be empty while nothing has been produced.
Streams ==
    { <<"", "b">>, <<"a", "ab">> }

\* The file names clients give their uploads (file.filename).
FileNames == { "a.jpg", "b.jpg" }

\* No bytes: no file is at the path, or no image has been opened.  The bytes
\* of request r's upload are written r.
NoBytes == 0

\* The response the client has not received yet.
NoResp == [status |-> 0, id |-> NoId, caption |-> ""]

\* Starlette answers an exception that leaves the handler with status 500.
ServerError == [status |-> 500, id |-> NoId, caption |-> ""]

VARIABLES
    pc,         \* pc[r]: where request r is in create_upload_file
    uuid,       \* uuid[r]: the local variable uuid of r's handler
    stream,     \* stream[r]: what answer_question has still to yield
    buffer,     \* buffer[r]: the local variable buffer of r's handler
    answer,     \* answer[r]: the local variable answer of r's handler
    queue,      \* queue[r]: work items of r's executor no worker has taken
    sa,         \* sa[r]: state of the task send_answer of request r
    dt,         \* dt[r]: state of the task detect_object of request r
    sink,       \* the POSTs the Sink received, in order of arrival
    resp,       \* resp[r]: the HTTP response the caller of r received
    temp,       \* temp[name]: whose upload the file temp/<name> holds
    temp_file_path,  \* temp_file_path[r]: the file name of r's upload, while
                     \* r's handler runs
    img         \* img[r]: whose upload the image img of r's handler shows,
                \* while r's handler runs

\* answer_question (local_test.py) consumed by the loop of main.py lines 86-90.
VARIABLES
    aq_pc,      \* "off", "streaming" or "exhausted"
    chunk,      \* the text the streamer is gathering for its next fragment
    raw,        \* every fragment the streamer has emitted, concatenated
    aq_buffer,  \* the local variable buffer of answer_question
    text,       \* the value answer_question yielded last
    caption     \* the variable buffer (then answer) of the consuming loop

\* One call of detect_object (main.py) with its call of predict_object
\* (detect.py).
VARIABLES
    det_pc,            \* where the call is
    det_id,            \* the argument id of detect_object
    results_len,       \* len(results) of detect.py line 18
    detected_classes,  \* the class index of every box, in the detector's order
    uniq_dict,         \* the local variable uniq_dict of predict_object
    objects,           \* the local variable objects of predict_object
    ret,               \* what predict_object returned: "list" or "tuple"
    posts_sent         \* the form data of the POSTs detect_object sent

\* The demo loop live_video of local_test.py and the callback img_change.
VARIABLES
    lv_pc,       \* where live_video is
    latest_img,  \* the global latest_img
    frames,      \* the number of images the camera has delivered so far
    aq_img,      \* the image answer_question was called with
    lv_stream,   \* what answer_question has still to yield
    lv_buffer,   \* the local variable buffer of live_video
    sent         \* the calls of send_answer so far, with their arguments

serverVars ==
    <<pc, uuid, stream, buffer, answer, queue, sa, dt, sink, resp, temp, temp_file_path, img>>
captionVars == <<aq_pc, chunk, raw, aq_buffer, text, caption>>
detectVars ==
    <<det_pc, det_id, results_len, detected_classes, uniq_dict, objects, ret, posts_sent>>

liveVars == <<lv_pc, latest_img, frames, aq_img, lv_stream, lv_buffer, sent>>

\* What the steps of each part leave alone.
notServer == <<captionVars, detectVars, liveVars>>
notCaption == <<serverVars, detectVars, liveVars>>
notDetect == <<serverVars, captionVars, liveVars>>
notLive == <<serverVars, captionVars, detectVars>>

vars == <<serverVars, notServer>>

\* Positions inside the body of create_upload_file: the event loop thread is
\* executing (or blocked in) the handler of that request.
InHandler ==
    { "staged", "assigned", "opened", "captioning", "captioned", "removed",
      "submitted1", "shutdown", "exited" }

\* A task a worker thread has taken and that has not returned or raised.
TaskRunning == { "running", "predict", "built", "posting" }
TaskFinished == { "done", "failed" }

\* answer_question is not under study: its variables stay as they are.
CaptionOff ==
    /\ aq_pc = "off"
    /\ chunk = <<>>
    /\ raw = <<>>
    /\ aq_buffer = <<>>
    /\ text = <<>>
    /\ caption = <<>>

\* The class indices of the detector's table that the model uses.
Classes == { 0, 15, 16 }

\* predict_object is not under study: its variables stay as they are.
DetectOff ==
    /\ det_pc = "off"
    /\ det_id = NoId
    /\ results_len = 0
    /\ detected_classes = <<>>
    /\ uniq_dict = [c \in Classes |-> 0]
    /\ objects = <<>>
    /\ ret = "none"
    /\ posts_sent = <<>>

\* latest_img = None (local_test.py line 125); image k is written k.
None == 0

\* The demo is not under study: its variables stay as they are.
LiveOff ==
    /\ lv_pc = "off"
    /\ latest_img = None
    /\ frames = 0
    /\ aq_img = None
    /\ lv_stream = <<>>
    /\ lv_buffer = ""
    /\ sent = <<>>

ServerInit ==
    /\ pc = [r \in Reqs |-> "idle"]
    /\ uuid = [r \in Reqs |-> NoId]
    /\ stream = [r \in Reqs |-> <<>>]
    /\ buffer = [r \in Reqs |-> ""]
    /\ answer = [r \in Reqs |-> ""]
    /\ queue = [r \in Reqs |-> <<>>]
    /\ sa = [r \in Reqs |-> "none"]
    /\ dt = [r \in Reqs |-> "none"]
    /\ sink = <<>>
    /\ resp = [r \in Reqs |-> NoResp]
    /\ temp = [name \in FileNames |-> NoBytes]
    /\ temp_file_path = [r \in Reqs |-> ""]
    /\ img = [r \in Reqs |-> NoBytes]

Init == ServerInit /\ CaptionOff /\ DetectOff /\ LiveOff

\* ------------------------------------------------------------ the handler

\* The event loop runs one coroutine step at a time and the handler body never
\* awaits: it can start a request's body only when no body is in progress.
EventLoopFree_threadpool == TRUE
EventLoopFree == \A q \in Reqs : pc[q] \notin InHandler

\* A client sends an upload.  Requests are numbered in their order of arrival.
Arrive(r) ==
    /\ pc[r] = "idle"
    /\ \A q \in Reqs : q < r => pc[q] # "idle"
    /\ pc' = [pc EXCEPT ![r] = "pending"]
    /\ UNCHANGED <<uuid, stream, buffer, answer, queue, sa, dt, sink, resp, temp, temp_file_path, img, notServer>>

\* Lines 73-80: the body starts and copies the upload to temp/<filename>:
\* open(.., "wb") creates the file or replaces what it held.
StageUpload(r) ==
    /\ pc[r] = "pending"
    /\ EventLoopFree
    /\ \E name \in FileNames :
           /\ temp_file_path' = [temp_file_path EXCEPT ![r] = name]
           /\ temp' = [temp EXCEPT ![name] = r]
    /\ pc' = [pc EXCEPT ![r] = "staged"]
    /\ UNCHANGED <<uuid, stream, buffer, answer, queue, sa, dt, sink, resp, img, notServer>>

\* uuid4(): a value no earlier call of this process run returned.
uuid4 == Ids \ { uuid[q] : q \in Reqs }

\* Line 82: uuid = str(uuid4()).
AssignId_module_level(r) ==
    /\ pc[r] = "staged"
    /\ uuid' = [uuid EXCEPT ![r] = CHOOSE u \in Ids : \A v \in Ids : u <= v]
    /\ pc' = [pc EXCEPT ![r] = "assigned"]
    /\ UNCHANGED <<stream, buffer, answer, queue, sa, dt, sink, resp, temp, temp_file_path, img, notServer>>
AssignId(r) ==
    /\ pc[r] = "staged"
    /\ \E u \in uuid4 : uuid' = [uuid EXCEPT ![r] = u]
    /\ pc' = [pc EXCEPT ![r] = "assigned"]
    /\ UNCHANGED <<stream, buffer, answer, queue, sa, dt, sink, resp, temp, temp_file_path, img, notServer>>

\* Line 84: img = Image.open(temp_file_path) reads the file at the path and
\* accepts its bytes.
OpenImage(r) ==
    /\ pc[r] = "assigned"
    /\ temp[temp_file_path[r]] # NoBytes
    /\ img' = [img EXCEPT ![r] = temp[temp_file_path[r]]]
    /\ pc' = [pc EXCEPT ![r] = "opened"]
    /\ UNCHANGED <<uuid, stream, buffer, answer, queue, sa, dt, sink, resp, temp, temp_file_path, notServer>>

\* Line 84: the uploaded bytes are no image: Image.open raises
\* UnidentifiedImageError, which nothing in the handler catches.
OpenImageRaise(r) ==
    /\ pc[r] = "assigned"
    /\ pc' = [pc EXCEPT ![r] = "decode_error"]
    /\ resp' = [resp EXCEPT ![r] = ServerError]
    /\ temp_file_path' = [temp_file_path EXCEPT ![r] = ""]
    /\ img' = [img EXCEPT ![r] = NoBytes]
    /\ UNCHANGED <<uuid, stream, buffer, answer, queue, sa, dt, sink, temp, notServer>>

\* Lines 86-87: buffer = "" and the for loop creates the generator.
StartCaption(r) ==
    /\ pc[r] = "opened"
    /\ \E s \in Streams : stream' = [stream EXCEPT ![r] = s]
    /\ buffer' = [buffer EXCEPT ![r] = ""]
    /\ pc' = [pc EXCEPT ![r] = "captioning"]
    /\ UNCHANGED <<uuid, answer, queue, sa, dt, sink, resp, temp, temp_file_path, img, notServer>>

\* Lines 87-89: one iteration of the loop: the generator yields text, and a
\* non-empty text replaces buffer.
CaptionNext(r) ==
    /\ pc[r] = "captioning"
    /\ stream[r] # <<>>
    /\ buffer' = [buffer EXCEPT ![r] =
                    IF Len(Head(stream[r])) > 0 THEN Head(stream[r]) ELSE @]
    /\ stream' = [stream EXCEPT ![r] = Tail(@)]
    /\ UNCHANGED <<pc, uuid, answer, queue, sa, dt, sink, resp, temp, temp_file_path, img, notServer>>

\* answer_question raises (encode_image, the tokenizer or the generation
\* fails): nothing in the handler catches it, and the frame's locals go.
CaptionRaise_handled(r) ==
    /\ pc[r] = "captioning"
    /\ pc' = [pc EXCEPT ![r] = "caption_error"]
    /\ resp' = [resp EXCEPT ![r] = [status |-> 500, id |-> uuid[r], caption |-> ""]]
    /\ stream' = [stream EXCEPT ![r] = <<>>]
    /\ buffer' = [buffer EXCEPT ![r] = ""]
    /\ temp_file_path' = [temp_file_path EXCEPT ![r] = ""]
    /\ img' = [img EXCEPT ![r] = NoBytes]
    /\ UNCHANGED <<uuid, answer, queue, sa, dt, sink, temp, notServer>>
CaptionRaise(r) ==
    /\ pc[r] = "captioning"
    /\ pc' = [pc EXCEPT ![r] = "caption_error"]
    /\ resp' = [resp EXCEPT ![r] = ServerError]
    /\ stream' = [stream EXCEPT ![r] = <<>>]
    /\ buffer' = [buffer EXCEPT ![r] = ""]
    /\ temp_file_path' = [temp_file_path EXCEPT ![r] = ""]
    /\ img' = [img EXCEPT ![r] = NoBytes]
    /\ UNCHANGED <<uuid, answer, queue, sa, dt, sink, temp, notServer>>

\* Line 90: the generator is exhausted; answer = buffer.
CaptionEnd_first_text(r) ==
    /\ pc[r] = "captioning"
    /\ Len(buffer[r]) > 0
    /\ answer' = [answer EXCEPT ![r] = buffer[r]]
    /\ pc' = [pc EXCEPT ![r] = "captioned"]
    /\ UNCHANGED <<uuid, stream, buffer, queue, sa, dt, sink, resp, temp, temp_file_path, img, notServer>>
CaptionEnd(r) ==
    /\ pc[r] = "captioning"
    /\ stream[r] = <<>>
    /\ answer' = [answer EXCEPT ![r] = buffer[r]]
    /\ pc' = [pc EXCEPT ![r] = "captioned"]
    /\ UNCHANGED <<uuid, stream, buffer, queue, sa, dt, sink, resp, temp, temp_file_path, img, notServer>>

\* Line 92: os.remove(temp_file_path); it raises FileNotFoundError, which
\* nothing catches, when no file is at the path.
RemoveTemp(r) ==
    /\ pc[r] = "captioned"
    /\ IF temp[temp_file_path[r]] # NoBytes
         THEN /\ temp' = [temp EXCEPT ![temp_file_path[r]] = NoBytes]
              /\ pc' = [pc EXCEPT ![r] = "removed"]
              /\ UNCHANGED <<resp, temp_file_path, img>>
         ELSE /\ pc' = [pc EXCEPT ![r] = "remove_error"]
              /\ resp' = [resp EXCEPT ![r] = ServerError]
              /\ temp_file_path' = [temp_file_path EXCEPT ![r] = ""]
              /\ img' = [img EXCEPT ![r] = NoBytes]
              /\ temp' = temp
    /\ UNCHANGED <<uuid, stream, buffer, answer, queue, sa, dt, sink, notServer>>

\* Line 96: executor.submit(send_answer, uuid, answer, img).
SubmitSendAnswer(r) ==
    /\ pc[r] = "removed"
    /\ queue' = [queue EXCEPT ![r] = Append(@, "send_answer")]
    /\ sa' = [sa EXCEPT ![r] = "queued"]
    /\ pc' = [pc EXCEPT ![r] = "submitted1"]
    /\ UNCHANGED <<uuid, stream, buffer, answer, dt, sink, resp, temp, temp_file_path, img, notServer>>

\* Line 97: executor.submit(detect_object, uuid, img).
SubmitDetectObject(r) ==
    /\ pc[r] = "submitted1"
    /\ queue' = [queue EXCEPT ![r] = Append(@, "detect_object")]
    /\ dt' = [dt EXCEPT ![r] = "queued"]
    /\ pc' = [pc EXCEPT ![r] = "shutdown"]
    /\ UNCHANGED <<uuid, stream, buffer, answer, sa, sink, resp, temp, temp_file_path, img, notServer>>

\* Line 95, leaving the with block: ThreadPoolExecutor.__exit__ calls
\* shutdown(wait=True), which joins the workers: it returns when every
\* submitted task has returned or raised.  A task's exception stays in its
\* Future, which nobody reads.
ExecutorJoined(r) == sa[r] \in TaskFinished /\ dt[r] \in TaskFinished

ExecutorExit(r) ==
    /\ pc[r] = "shutdown"
    /\ ExecutorJoined(r)
    /\ pc' = [pc EXCEPT ![r] = "exited"]
    /\ UNCHANGED <<uuid, stream, buffer, answer, queue, sa, dt, sink, resp, temp, temp_file_path, img, notServer>>

\* Line 99: return JSONResponse({"id": uuid, "caption": answer, "url": ...}).
JSONResponse_result(r) ==
    IF dt[r] = "failed" \/ sa[r] = "failed"
      THEN ServerError
      ELSE [status |-> 200, id |-> uuid[r], caption |-> answer[r]]
JSONResponse(r) == [status |-> 200, id |-> uuid[r], caption |-> answer[r]]

Respond(r) ==
    /\ pc[r] = "exited"
    /\ resp' = [resp EXCEPT ![r] = JSONResponse(r)]
    /\ pc' = [pc EXCEPT ![r] = "done"]
    /\ temp_file_path' = [temp_file_path EXCEPT ![r] = ""]
    /\ img' = [img EXCEPT ![r] = NoBytes]
    /\ UNCHANGED <<uuid, stream, buffer, answer, queue, sa, dt, sink, temp, notServer>>

\* ------------------------------------------------------ the worker threads

\* The tasks of r's executor that a worker is running.
Busy(r) ==
    (IF sa[r] \in TaskRunning THEN 1 ELSE 0) + (IF dt[r] \in TaskRunning THEN 1 ELSE 0)

\* submit() starts a new worker thread while fewer than max_workers exist;
\* a worker takes the oldest work item of the queue.
WorkerAvailable_single(r) == Busy(r) < max_workers - 1
WorkerAvailable(r) == Busy(r) < max_workers

TakeWork(r) ==
    /\ queue[r] # <<>>
    /\ WorkerAvailable(r)
    /\ queue' = [queue EXCEPT ![r] = Tail(@)]
    /\ IF Head(queue[r]) = "send_answer"
         THEN sa' = [sa EXCEPT ![r] = "running"] /\ dt' = dt
         ELSE dt' = [dt EXCEPT ![r] = "predict"] /\ sa' = sa
    /\ UNCHANGED <<pc, uuid, stream, buffer, answer, sink, resp, temp, temp_file_path, img, notServer>>

\* send_answer, lines 22-28: the JPEG is built and requests.post is called.
SendAnswerPost(r) ==
    /\ sa[r] = "running"
    /\ sa' = [sa EXCEPT ![r] = "posting"]
    /\ UNCHANGED <<pc, uuid, stream, buffer, answer, queue, dt, sink, resp, temp, temp_file_path, img, notServer>>

\* send_answer, line 25: latest_image.save(..., format='JPEG') raises (the
\* image has a mode JPEG cannot hold): the task ends without a POST.
SendAnswerRaise(r) ==
    /\ sa[r] = "running"
    /\ sa' = [sa EXCEPT ![r] = "failed"]
    /\ UNCHANGED <<pc, uuid, stream, buffer, answer, queue, dt, sink, resp, temp, temp_file_path, img, notServer>>

\* The form fields of the POST to /newTick (lines 28-32).
NewTickData(r) ==
    [kind |-> "newTick", req |-> r, id |-> uuid[r], caption |-> answer[r]]

\* The Sink receives the caption POST and answers it, with a 2xx status or
\* another one: requests.post returns the response either way, and send_answer
\* drops it (lines 28-32).
SinkNewTick(r) ==
    /\ sa[r] = "posting"
    /\ sink' = Append(sink, NewTickData(r))
    /\ sa' = [sa EXCEPT ![r] = "done"]
    /\ UNCHANGED <<pc, uuid, stream, buffer, answer, queue, dt, resp, temp, temp_file_path, img, notServer>>

\* The Sink is unreachable: requests.post raises in the worker.
NewTickFail_retry(r) ==
    /\ sa[r] = "posting"
    /\ sa' = [sa EXCEPT ![r] = "running"]
    /\ UNCHANGED <<pc, uuid, stream, buffer, answer, queue, dt, sink, resp, temp, temp_file_path, img, notServer>>
NewTickFail(r) ==
    /\ sa[r] = "posting"
    /\ sa' = [sa EXCEPT ![r] = "failed"]
    /\ UNCHANGED <<pc, uuid, stream, buffer, answer, queue, dt, sink, resp, temp, temp_file_path, img, notServer>>

\* detect_object, lines 38-53: predict_object returns (objects, image) and
\* the JSON of the objects is built.
PredictReturn(r) ==
    /\ dt[r] = "predict"
    /\ dt' = [dt EXCEPT ![r] = "built"]
    /\ UNCHANGED <<pc, uuid, stream, buffer, answer, queue, sa, sink, resp, temp, temp_file_path, img, notServer>>

\* Lines 39-53 raise: predict_object raises, or it returns [] (detect.py
\* line 22) and the tuple assignment of line 41 raises ValueError, or the
\* annotated image cannot be saved as JPEG.
PredictRaise(r) ==
    /\ dt[r] = "predict"
    /\ dt' = [dt EXCEPT ![r] = "failed"]
    /\ UNCHANGED <<pc, uuid, stream, buffer, answer, queue, sa, sink, resp, temp, temp_file_path, img, notServer>>

\* Lines 57-66: requests.post to /objectDetect is called.
DetectPost(r) ==
    /\ dt[r] = "built"
    /\ dt' = [dt EXCEPT ![r] = "posting"]
    /\ UNCHANGED <<pc, uuid, stream, buffer, answer, queue, sa, sink, resp, temp, temp_file_path, img, notServer>>

\* The form fields of the POST to /objectDetect (lines 61-65).
ObjectDetectData_noid(r) ==
    [kind |-> "objectDetect", req |-> r, id |-> NoId, caption |-> ""]
ObjectDetectData(r) ==
    [kind |-> "objectDetect", req |-> r, id |-> uuid[r], caption |-> ""]

\* The Sink receives the detection POST and answers it, with a 2xx status or
\* another one: detect_object prints the status (line 67) and returns.
SinkObjectDetect(r) ==
    /\ dt[r] = "posting"
    /\ sink' = Append(sink, ObjectDetectData(r))
    /\ dt' = [dt EXCEPT ![r] = "done"]
    /\ UNCHANGED <<pc, uuid, stream, buffer, answer, queue, sa, resp, temp, temp_file_path, img, notServer>>

\* The Sink is unreachable: requests.post raises in the worker.
ObjectDetectFail(r) ==
    /\ dt[r] = "posting"
    /\ dt' = [dt EXCEPT ![r] = "failed"]
    /\ UNCHANGED <<pc, uuid, stream, buffer, answer, queue, sa, sink, resp, temp, temp_file_path, img, notServer>>

\* ------------------------------------------------------ the specifications

\* The steps of the event loop thread for request r.
HandlerStep(r) ==
    \/ StageUpload(r)
    \/ AssignId(r)
    \/ OpenImage(r)
    \/ StartCaption(r)
    \/ CaptionNext(r)
    \/ CaptionEnd(r)
    \/ RemoveTemp(r)
    \/ SubmitSendAnswer(r)
    \/ SubmitDetectObject(r)
    \/ ExecutorExit(r)
    \/ Respond(r)

\* The steps of the worker threads of r's executor that wait for nothing
\* outside the process.
WorkerStep(r) ==
    \/ TakeWork(r)
    \/ SendAnswerPost(r)
    \/ PredictReturn(r)
    \/ DetectPost(r)

\* The Sink (or the network) ends a POST of request r.
SinkStep(r) ==
    \/ SinkNewTick(r)
    \/ NewTickFail(r)
    \/ SinkObjectDetect(r)
    \/ ObjectDetectFail(r)

Next ==
    \E r \in Reqs :
        \/ Arrive(r)
        \/ HandlerStep(r)
        \/ OpenImageRaise(r)
        \/ CaptionRaise(r)
        \/ WorkerStep(r)
        \/ SendAnswerRaise(r)
        \/ PredictRaise(r)
        \/ SinkStep(r)

Spec == Init /\ [][Next]_vars

\* The threads of the process are scheduled fairly and the collaborators'
\* streams end; nothing is assumed of the Sink, which may never answer.
FairSpec ==
    /\ Spec
    /\ \A r \in Reqs : WF_vars(HandlerStep(r))
    /\ \A r \in Reqs : WF_vars(WorkerStep(r))

\* The environment of request OtherReq behaves: the Sink answers its POSTs.
\* Nothing is assumed of the Sink's answers to the other requests.
OtherReq == NumRequests

FairSpecOther ==
    /\ FairSpec
    /\ WF_vars(SinkStep(OtherReq))

\* ---------------------------------------------------------------- helpers

\* The Sink has received the POST of the given kind for request r.
SinkHas(kind, r) ==
    \E i \in DOMAIN sink : sink[i].kind = kind /\ sink[i].req = r

\* The first POST of request r the Sink received is of the given kind.
SinkFirst(kind, r) ==
    \E i \in DOMAIN sink :
        /\ sink[i].req = r
        /\ sink[i].kind = kind
        /\ \A j \in 1..(i - 1) : sink[j].req # r

\* The caller of r has received a response.
Responded(r) == resp[r] # NoResp

\* ------------------------------------------------------------------ claims

\* C1: once the captioning of an upload has completed, the response is
\* eventually returned to the caller, whether or not the Sink ever answers
\* the caption POST or the detection POST of that request.
C1_ResponseNotBlockedByTasks ==
    \A r \in Reqs : (pc[r] = "captioned") ~> Responded(r)

\* C2: a request that has arrived eventually gets its response when its own
\* collaborators and deliveries finish, whatever becomes of the background
\* deliveries of the other requests.
C2_ResponseNotBlockedByOthers ==
    (pc[OtherReq] = "pending") ~> Responded(OtherReq)

\* C3: while one request is inside the answer_question loop, the server can
\* start the handling of another upload that has arrived.
C3_CaptioningBlocksOnlyItsRequest ==
    \A a \in Reqs : \A b \in Reqs :
        (a # b /\ pc[a] = "captioning" /\ pc[b] = "pending")
            => ENABLED StageUpload(b)

\* C4: a submitted task of a request never waits for the worker the other
\* task of the request holds: whenever a work item is queued, a worker of
\* that executor can take it, wherever the other task is stalled.
C4_TasksNeverBlockEachOther ==
    \A r \in Reqs : queue[r] # <<>> => WorkerAvailable(r)

\* C4 witness: both orders of arrival at the Sink happen: the caption of one
\* request arrived before its detection, and the detection of another has
\* arrived while its send_answer is still stalled in its POST.
C4_Witness ==
    \E r1 \in Reqs : \E r2 \in Reqs :
        /\ SinkFirst("newTick", r1)
        /\ SinkHas("objectDetect", r1)
        /\ SinkFirst("objectDetect", r2)
        /\ sa[r2] = "posting"

\* C5: when the detection path of a request has failed, the Sink holds no
\* detection delivery for it, the caption delivery of the request can take
\* its next step wherever it is (be taken by a worker, send its POST, reach
\* the Sink), the executor still joins so that the handler goes on, and the
\* response is the 200 {id, caption} of the successful case.
C5_DetectionFailureIsolated ==
    \A r \in Reqs :
        dt[r] = "failed" =>
            /\ ~SinkHas("objectDetect", r)
            /\ sa[r] = "queued" => ENABLED TakeWork(r)
            /\ sa[r] = "running" => ENABLED SendAnswerPost(r)
            /\ sa[r] = "posting" => ENABLED SinkNewTick(r)
            /\ (pc[r] = "shutdown" /\ sa[r] \in TaskFinished) => ENABLED ExecutorExit(r)
            /\ Responded(r) =>
                   resp[r] = [status |-> 200, id |-> uuid[r], caption |-> answer[r]]

\* C5 witness: detection failed, the caption reached the Sink and the caller
\* got its 200 response.
C5_Witness ==
    \E r \in Reqs :
        /\ dt[r] = "failed"
        /\ SinkHas("newTick", r)
        /\ resp[r].status = 200

\* The image of request r has been decoded successfully.
Decoded(r) ==
    pc[r] \in { "opened", "captioning", "captioned", "removed", "submitted1",
                "shutdown", "exited", "done", "caption_error" }

\* C6: an id is generated only after the image was decoded successfully, and
\* an upload whose decoding failed has been issued no id.
C6_DecodeBeforeId ==
    \A r \in Reqs :
        /\ uuid[r] # NoId => Decoded(r)
        /\ pc[r] = "decode_error" => uuid[r] = NoId

\* C7: an upload that cannot be decoded is answered with a 4xx status, and
\* no background work is scheduled or delivered for it.
C7_DecodeErrorIs4xx ==
    \A r \in Reqs :
        pc[r] = "decode_error" =>
            /\ resp[r].status \in 400..499
            /\ sa[r] = "none" /\ dt[r] = "none" /\ queue[r] = <<>>
            /\ ~SinkHas("newTick", r) /\ ~SinkHas("objectDetect", r)

C9_SameId ==
    /\ \A i \in DOMAIN sink :
           /\ sink[i].id # NoId
           /\ sink[i].id = uuid[sink[i].req]
           /\ \A q \in Reqs : q # sink[i].req => sink[i].id # uuid[q]
    /\ \A r \in Reqs : resp[r].status = 200 => resp[r].id = uuid[r] /\ uuid[r] # NoId

C9_Correlation ==
    /\ []C9_SameId
    /\ [][\A r \in Reqs : uuid[r] # NoId => uuid'[r] = uuid[r]]_vars

\* C9 witness: two requests have both of their deliveries at the Sink and
\* their responses at their callers.
C9_Witness ==
    \E r \in Reqs : \E q \in Reqs :
        /\ r # q
        /\ \A x \in {r, q} :
               /\ SinkHas("newTick", x)
               /\ SinkHas("objectDetect", x)
               /\ resp[x].status = 200

\* C10: no two requests hold the same id, and no two responses carry the
\* same id.
C10_UniqueIds ==
    \A r \in Reqs : \A q \in Reqs :
        r # q =>
            /\ (uuid[r] # NoId /\ uuid[q] # NoId) => uuid[r] # uuid[q]
            /\ (resp[r].status = 200 /\ resp[q].status = 200) => resp[r].id # resp[q].id

\* C10 witness: two requests have been answered with an id each.
C10_Witness ==
    \E r \in Reqs : \E q \in Reqs :
        r # q /\ resp[r].status = 200 /\ resp[q].status = 200

\* C15: the caption of a POST to /newTick is the value the handler holds after
\* its loop has consumed answer_question to exhaustion, the response to the
\* caller carries the same caption, and no value the generator yielded before
\* its last one is posted.
C15_OnlyFinalCaptionDelivered ==
    \A i \in DOMAIN sink :
        sink[i].kind = "newTick" =>
            LET r == sink[i].req
            IN  /\ stream[r] = <<>>
                /\ pc[r] \notin { "idle", "pending", "staged", "assigned", "opened", "captioning" }
                /\ sink[i].caption = buffer[r]
                /\ sink[i].caption \in { s[Len(s)] : s \in Streams }
                /\ resp[r].status = 200 => resp[r].caption = sink[i].caption

\* C15 witness: a stream that yielded the partial value "a" before its last
\* value "ab" was consumed; "ab" is at the Sink and in the response.
C15_Witness ==
    \E r \in Reqs :
        /\ \E i \in DOMAIN sink :
               sink[i].kind = "newTick" /\ sink[i].req = r /\ sink[i].caption = "ab"
        /\ resp[r].status = 200
        /\ resp[r].caption = "ab"

\* A task that has called requests.post: the call is in progress, or it has
\* returned or raised and the task is over.
Attempted == { "posting" } \cup TaskFinished

\* C16: for every request at most one POST is attempted to /newTick and at
\* most one to /objectDetect: a task that has called requests.post ends when
\* the call returns (with any status) or raises, and a task that is over stays
\* so; and whatever became of the two attempts, the response the handler
\* returns is status 200 with the request's id and caption.
C16_NoRetryAndSameResponse ==
    [][\A r \in Reqs :
          /\ sa[r] \in Attempted => sa'[r] \in TaskFinished \cup { sa[r] }
          /\ dt[r] \in Attempted => dt'[r] \in TaskFinished \cup { dt[r] }
          /\ sa[r] \in TaskFinished => sa'[r] = sa[r]
          /\ dt[r] \in TaskFinished => dt'[r] = dt[r]
          /\ pc'[r] = "done" =>
                 resp'[r] = [status |-> 200, id |-> uuid[r], caption |-> answer[r]]]_vars

\* C16 witness: neither POST of a request reached the Sink, the other
\* request's caption POST did, and both callers have the 200 response.
C16_Witness ==
    \E r \in Reqs : \E q \in Reqs :
        /\ pc[r] = "done" /\ pc[q] = "done"
        /\ sa[r] = "failed" /\ dt[r] = "failed"
        /\ ~SinkHas("newTick", r) /\ ~SinkHas("objectDetect", r)
        /\ SinkHas("newTick", q)
        /\ resp[r].status = 200 /\ resp[q].status = 200

\* Request r has written its temp file and has neither removed it nor ended
\* with an exception.
Staging(r) == pc[r] \in { "staged", "assigned", "opened", "captioning", "captioned" }

\* C18: from a request's write of temp/<filename> to its os.remove, the file
\* at its path holds the bytes it uploaded (no other request has written or
\* removed it), and the image it opened is decoded from its own bytes; also
\* when uploads have the same file name.
C18_StagingIsolation ==
    \A r \in Reqs :
        /\ Staging(r) => temp[temp_file_path[r]] = r
        /\ img[r] \in { NoBytes, r }
        /\ pc[r] # "remove_error"

\* C18 witness: two uploads with the same file name.  The handler of r ended
\* with an exception, which leaves its temp file in place; q has since written
\* its upload and decoded it, and no file holds r's bytes any more: q wrote to
\* the path of r.
C18_Witness ==
    \E r \in Reqs : \E q \in Reqs :
        /\ pc[r] \in { "decode_error", "caption_error" }
        /\ Staging(q)
        /\ img[q] = q
        /\ \A name \in FileNames : temp[name] # r


\* ================================================================ captioning
\* answer_question, local_test.py lines 93-97, driven by the loop of
\* create_upload_file, main.py lines 86-90.  Text is a sequence of characters.

\* Bound: the number of characters the streamer emits in one captioning.
MaxChars == 6

\* The characters of the marker and one character that is in no marker.
Chars == { "<", "E", "N", "D", "a" }

\* The end-of-stream marker answer_question aims at.
Marker == << "<", "E", "N", "D" >>

\* The characters of the argument of buffer.strip("<END").
StripChars == { "<", "E", "N", "D" }

\* Where `$` matches in s: at the end, and before a newline that ends s.
Dollar(s, i) ==
    \/ i = Len(s) + 1
    \/ i = Len(s) /\ s[i] = "\n"

\* t occurs in s at position i.
OccursAt(s, t, i) ==
    /\ i + Len(t) - 1 <= Len(s)
    /\ \A k \in 1..Len(t) : s[i + k - 1] = t[k]

\* Line 95: re.sub("<$|END$", "", s), scanning s from position i: at each
\* position the alternatives are tried in order, a match is dropped and the
\* scan goes on behind it.
RECURSIVE re_sub_from(_, _)
re_sub_from(s, i) ==
    IF i > Len(s) THEN <<>>
    ELSE IF OccursAt(s, << "<" >>, i) /\ Dollar(s, i + 1)
        THEN re_sub_from(s, i + 1)
    ELSE IF OccursAt(s, << "E", "N", "D" >>, i) /\ Dollar(s, i + 3)
        THEN re_sub_from(s, i + 3)
    ELSE << s[i] >> \o re_sub_from(s, i + 1)

re_sub(s) == re_sub_from(s, 1)

\* str.lstrip and str.rstrip with a set of characters.
RECURSIVE lstrip(_, _)
lstrip(s, cs) ==
    IF s # <<>> /\ Head(s) \in cs THEN lstrip(Tail(s), cs) ELSE s

RECURSIVE rstrip(_, _)
rstrip(s, cs) ==
    IF s # <<>> /\ s[Len(s)] \in cs THEN rstrip(SubSeq(s, 1, Len(s) - 1), cs) ELSE s

\* Line 97: buffer.strip("<END") removes from both ends every character that
\* is one of <, E, N, D.
strip(s, cs) == rstrip(lstrip(s, cs), cs)

\* t is a substring of s.
Contains(s, t) == \E i \in 1..(Len(s) + 1) : OccursAt(s, t, i)

\* s without the occurrences of t, found from left to right.
RECURSIVE RemoveAll(_, _)
RemoveAll(s, t) ==
    IF s = <<>> THEN <<>>
    ELSE IF OccursAt(s, t, 1) THEN RemoveAll(SubSeq(s, Len(t) + 1, Len(s)), t)
    ELSE << Head(s) >> \o RemoveAll(Tail(s), t)

\* A captioning starts: line 93 (buffer = "") and main.py line 86.
CaptionInit ==
    /\ aq_pc = "streaming"
    /\ chunk = <<>>
    /\ raw = <<>>
    /\ aq_buffer = <<>>
    /\ text = <<>>
    /\ caption = <<>>

\* The generation thread hands the streamer one more character.
StreamerPut ==
    /\ aq_pc = "streaming"
    /\ Len(raw) + Len(chunk) < MaxChars
    /\ \E c \in Chars : chunk' = Append(chunk, c)
    /\ UNCHANGED <<aq_pc, raw, aq_buffer, text, caption, notCaption>>

\* The streamer emits its fragment as new_text: one iteration of the loop of
\* lines 94-97, and of the loop of main.py lines 87-89 that takes the yield.
AnswerQuestionYield ==
    /\ aq_pc = "streaming"
    /\ raw' = raw \o chunk
    /\ chunk' = <<>>
    /\ aq_buffer' = aq_buffer \o re_sub(chunk)
    /\ text' = strip(aq_buffer', StripChars)
    /\ caption' = IF Len(text') > 0 THEN text' ELSE caption
    /\ UNCHANGED <<aq_pc, notCaption>>

\* The streamer ends with nothing left to emit: the generator is exhausted
\* and main.py line 90 takes answer = buffer.
AnswerQuestionEnd ==
    /\ aq_pc = "streaming"
    /\ chunk = <<>>
    /\ aq_pc' = "exhausted"
    /\ UNCHANGED <<chunk, raw, aq_buffer, text, caption, notCaption>>

InitCaption == ServerInit /\ CaptionInit /\ DetectOff /\ LiveOff

NextCaption ==
    \/ StreamerPut
    \/ AnswerQuestionYield
    \/ AnswerQuestionEnd

SpecCaption == InitCaption /\ [][NextCaption]_vars

\* C11: the caption create_upload_file takes from answer_question never
\* contains the text "<END", wherever the marker stood in the fragments.
C11_NoMarkerInCaption ==
    aq_pc = "exhausted" => ~Contains(caption, Marker)

\* C17: every value answer_question yields is the concatenation of the
\* fragments received so far with the marker removed, and so is the final
\* caption: no character outside a marker is dropped.
C17_AccumulationPreservesText ==
    /\ text = RemoveAll(raw, Marker)
    /\ aq_pc = "exhausted" => caption = RemoveAll(raw, Marker)

\* ================================================================= detection
\* predict_object, detect.py lines 18-53, and its caller detect_object,
\* main.py lines 41-66.

\* Bound: the number of boxes the detector finds in one frame.
MaxDetections == 3

\* results[0].names: the detector's table of class names.
names == [c \in Classes |-> CASE c = 0 -> "person" [] c = 15 -> "cat" [] c = 16 -> "dog"]

\* str(n) of a count.
Digit == << "0", "1", "2", "3", "4", "5", "6", "7", "8", "9" >>

RECURSIVE str(_)
str(n) ==
    IF n < 0 THEN "-" \o str(0 - n)
    ELSE IF n < 10 THEN Digit[n + 1]
    ELSE str(n \div 10) \o Digit[(n % 10) + 1]

\* The sequences of class indices of length n.
RECURSIVE ClassSeqs(_)
ClassSeqs(n) ==
    IF n = 0 THEN { <<>> }
    ELSE { Append(cs, c) : cs \in ClassSeqs(n - 1), c \in Classes }

\* The number of the first n detections that are of class c.
CountIn(cs, c, n) == Cardinality({ k \in 1..n : cs[k] = c })

\* detect_object is called with an id; model.predict has returned its results:
\* no entry at all, or one entry with the boxes of the frame.
DetectInit ==
    /\ det_pc = "predicted"
    /\ det_id \in Ids
    /\ results_len \in { 0, 1 }
    /\ \E n \in 0..MaxDetections : detected_classes \in ClassSeqs(n)
    /\ results_len = 0 => detected_classes = <<>>
    /\ uniq_dict = [c \in Classes |-> 0]
    /\ objects = <<>>
    /\ ret = "none"
    /\ posts_sent = <<>>

\* detect.py lines 20-22: no entry in results: return [].
predict_object_empty ==
    /\ det_pc = "predicted"
    /\ results_len < 1
    /\ ret' = "list"
    /\ det_pc' = "returned"
    /\ UNCHANGED <<det_id, results_len, detected_classes, uniq_dict, objects, posts_sent, notDetect>>

\* detect.py lines 24-31: np.unique counts every class; objects = [].
predict_object_count ==
    /\ det_pc = "predicted"
    /\ ~(results_len < 1)
    /\ uniq_dict' = [c \in Classes |-> CountIn(detected_classes, c, Len(detected_classes))]
    /\ objects' = <<>>
    /\ det_pc' = "loop"
    /\ UNCHANGED <<det_id, results_len, detected_classes, ret, posts_sent, notDetect>>

\* detect.py lines 32-35: one iteration of the loop, for i = len(objects):
\* the label is the class name, "_" and the class's remaining count, which is
\* then decremented.  Box i is the i-th box of the detector.
predict_object_loop_ascending ==
    /\ det_pc = "loop"
    /\ Len(objects) < Len(detected_classes)
    /\ LET i == Len(objects) + 1
           c == detected_classes[i]
       IN  /\ objects' = Append(objects,
                  [label |-> names[c] \o "_" \o str(CountIn(detected_classes, c, i)), box |-> i])
           /\ uniq_dict' = [uniq_dict EXCEPT ![c] = @ - 1]
    /\ UNCHANGED <<det_pc, det_id, results_len, detected_classes, ret, posts_sent, notDetect>>
predict_object_loop_no_decrement ==
    /\ det_pc = "loop"
    /\ Len(objects) < Len(detected_classes)
    /\ LET i == Len(objects) + 1
           c == detected_classes[i]
       IN  objects' = Append(objects,
               [label |-> names[c] \o "_" \o str(uniq_dict[c]), box |-> i])
    /\ UNCHANGED <<det_pc, det_id, results_len, detected_classes, uniq_dict, ret, posts_sent, notDetect>>
predict_object_loop ==
    /\ det_pc = "loop"
    /\ Len(objects) < Len(detected_classes)
    /\ LET i == Len(objects) + 1
           c == detected_classes[i]
       IN  /\ objects' = Append(objects,
                  [label |-> names[c] \o "_" \o str(uniq_dict[c]), box |-> i])
           /\ uniq_dict' = [uniq_dict EXCEPT ![c] = @ - 1]
    /\ UNCHANGED <<det_pc, det_id, results_len, detected_classes, ret, posts_sent, notDetect>>

\* detect.py lines 37-53: the loop is over; the image is annotated and
\* (objects, annotated_image) is returned.
predict_object_return ==
    /\ det_pc = "loop"
    /\ Len(objects) = Len(detected_classes)
    /\ ret' = "tuple"
    /\ det_pc' = "returned"
    /\ UNCHANGED <<det_id, results_len, detected_classes, uniq_dict, objects, posts_sent, notDetect>>

\* main.py lines 41-66: (detected_objects, annotated_image) = predict_object(..)
\* takes the pair apart, the JSON of the objects is built and posted with id.
detect_object_post ==
    /\ det_pc = "returned"
    /\ ret = "tuple"
    /\ posts_sent' = Append(posts_sent,
           [id |-> det_id,
            detected_objects |-> [k \in 1..Len(objects) |->
                                     [name |-> objects[k].label, xywh |-> objects[k].box]]])
    /\ det_pc' = "done"
    /\ UNCHANGED <<det_id, results_len, detected_classes, uniq_dict, objects, ret, notDetect>>

\* main.py line 41: predict_object returned the bare list []: taking it apart
\* into two names raises ValueError, which ends detect_object.
detect_object_unpack_raise ==
    /\ det_pc = "returned"
    /\ ret = "list"
    /\ det_pc' = "raised"
    /\ UNCHANGED <<det_id, results_len, detected_classes, uniq_dict, objects, ret, posts_sent, notDetect>>

InitDetect == ServerInit /\ CaptionOff /\ DetectInit /\ LiveOff

NextDetect ==
    \/ predict_object_empty
    \/ predict_object_count
    \/ predict_object_loop
    \/ predict_object_return
    \/ detect_object_post
    \/ detect_object_unpack_raise

SpecDetect == InitDetect /\ [][NextDetect]_vars

\* predict_object has built the label of every detection.
Labelled == det_pc \in { "returned", "done" } /\ ret = "tuple"

\* C12: the i-th label is the name of class i, "_" and the class's total count
\* in the frame minus the number of earlier detections of that class; the
\* output has the length and the order of the input and pairs label i with
\* box i; and [dog, dog, cat] yields dog_2, dog_1, cat_1.
C12_LabelsCountDown ==
    Labelled =>
        /\ Len(objects) = Len(detected_classes)
        /\ \A i \in 1..Len(objects) :
               LET c == detected_classes[i]
               IN  /\ objects[i].label =
                          names[c] \o "_" \o
                            str(CountIn(detected_classes, c, Len(detected_classes))
                                  - CountIn(detected_classes, c, i - 1))
                   /\ objects[i].box = i
        /\ detected_classes = << 16, 16, 15 >> =>
               [i \in 1..3 |-> objects[i].label] = << "dog_2", "dog_1", "cat_1" >>

\* C12 witness: the frame [dog, dog, cat] has been labelled.
C12_Witness ==
    /\ Labelled
    /\ detected_classes = << 16, 16, 15 >>
    /\ objects[1].label = "dog_2" /\ objects[2].label = "dog_1" /\ objects[3].label = "cat_1"

\* C13: no two detections of one result have the same label, and every label
\* is the class name with a suffix between 1 and the class's total count.
C13_LabelsUnique ==
    Labelled =>
        /\ \A i \in 1..Len(objects) : \A j \in 1..Len(objects) :
               i # j => objects[i].label # objects[j].label
        /\ \A i \in 1..Len(objects) :
               LET c == detected_classes[i]
               IN  objects[i].label \in
                       { names[c] \o "_" \o str(k) :
                           k \in 1..CountIn(detected_classes, c, Len(detected_classes)) }

\* C13 witness: a frame whose detections are all of one class, and more than
\* one, has been labelled.
C13_Witness ==
    /\ Labelled
    /\ Len(detected_classes) = MaxDetections
    /\ \A i \in 1..Len(detected_classes) : detected_classes[i] = 16

\* C14: when the detector finds no object, detect_object ends having sent one
\* POST for its id with an empty detected_objects array.
C14_EmptyResultDelivered ==
    (det_pc \in { "done", "raised" } /\ detected_classes = <<>>) =>
        /\ det_pc = "done"
        /\ Len(posts_sent) = 1
        /\ posts_sent[1].id = det_id
        /\ posts_sent[1].detected_objects = <<>>

\* ================================================================== the demo
\* live_video, img_change and send_answer of local_test.py: the loop runs in
\* one thread, the callback img_change in another, whenever the camera
\* delivers an image or the image component is cleared.

\* Bound: the number of images the camera delivers.
MaxImages == 3

\* The caption of image k: the text the model produces for it.
CaptionOf == [k \in 1..MaxImages |-> "caption " \o str(k)]

\* The values answer_question yields for image k: the running caption, which
\* may be empty at first.
LiveStreams(k) == { << CaptionOf[k] >>, << "", CaptionOf[k] >> }

LiveInit ==
    /\ lv_pc = "check"
    /\ latest_img = None
    /\ frames = 0
    /\ aq_img = None
    /\ lv_stream = <<>>
    /\ lv_buffer = ""
    /\ sent = <<>>

\* Lines 128-131: the camera delivers its next image, or the component is
\* cleared, and the callback stores the value in the global.
img_change ==
    /\ \/ /\ frames < MaxImages
          /\ frames' = frames + 1
          /\ latest_img' = frames + 1
       \/ /\ latest_img # None
          /\ latest_img' = None
          /\ frames' = frames
    /\ UNCHANGED <<lv_pc, aq_img, lv_stream, lv_buffer, sent, notLive>>

\* Lines 141-144: no image: the loop sleeps 0.1 s.
live_video_sleep ==
    /\ lv_pc = "check"
    /\ latest_img = None
    /\ lv_pc' = "sleep"
    /\ UNCHANGED <<latest_img, frames, aq_img, lv_stream, lv_buffer, sent, notLive>>

\* Line 144: time.sleep returns, back to the head of the loop.
live_video_wake ==
    /\ lv_pc = "sleep"
    /\ lv_pc' = "check"
    /\ UNCHANGED <<latest_img, frames, aq_img, lv_stream, lv_buffer, sent, notLive>>

\* Lines 145-147: buffer = "" and answer_question(latest_img, latest_prompt)
\* is called with the image the global holds now.
live_video_caption ==
    /\ lv_pc = "check"
    /\ latest_img # None
    /\ aq_img' = latest_img
    /\ \E s \in LiveStreams(latest_img) : lv_stream' = s
    /\ lv_buffer' = ""
    /\ lv_pc' = "captioning"
    /\ UNCHANGED <<latest_img, frames, sent, notLive>>

\* Lines 147-150: one iteration of the for loop: a non-empty text replaces
\* buffer and is yielded to the page.
live_video_text ==
    /\ lv_pc = "captioning"
    /\ lv_stream # <<>>
    /\ lv_buffer' = IF Len(Head(lv_stream)) > 0 THEN Head(lv_stream) ELSE lv_buffer
    /\ lv_stream' = Tail(lv_stream)
    /\ UNCHANGED <<lv_pc, latest_img, frames, aq_img, sent, notLive>>

\* Line 151 with lines 56-71: the generator is exhausted and
\* send_answer(buffer, latest_img) reads the global again; it starts a thread
\* that posts its two arguments to /newTick.
live_video_send_answer ==
    /\ lv_pc = "captioning"
    /\ lv_stream = <<>>
    /\ sent' = Append(sent, [caption |-> lv_buffer, latest_image |-> latest_img])
    /\ lv_pc' = "reset"
    /\ UNCHANGED <<latest_img, frames, aq_img, lv_stream, lv_buffer, notLive>>

\* Line 152: latest_img = None, and back to the head of the loop.
live_video_reset ==
    /\ lv_pc = "reset"
    /\ latest_img' = None
    /\ lv_pc' = "check"
    /\ UNCHANGED <<frames, aq_img, lv_stream, lv_buffer, sent, notLive>>

InitLive == ServerInit /\ CaptionOff /\ DetectOff /\ LiveInit

NextLive ==
    \/ img_change
    \/ live_video_sleep
    \/ live_video_wake
    \/ live_video_caption
    \/ live_video_text
    \/ live_video_send_answer
    \/ live_video_reset

SpecLive == InitLive /\ [][NextLive]_vars

\* C19: in every call of send_answer the image argument is the image the
\* caption argument was generated from.
C19_CaptionMatchesImage ==
    \A i \in DOMAIN sent :
        /\ sent[i].latest_image # None
        /\ sent[i].caption = CaptionOf[sent[i].latest_image]

\* C20: the loop's reset of latest_img to None discards no image but the one
\* it has just captioned: an image img_change stored meanwhile is still there
\* for the next round.
C20_ResetLosesNoImage ==
    [][(lv_pc = "reset" /\ lv_pc' = "check") => latest_img \in { None, aq_img }]_vars

====
